---- MODULE Spec2Model ----
(***************************************************************************)
(* The PhysX character controller example (src/examples/physx.rs): the     *)
(* startup configuration in main, the per-tick schedule it registers, and  *)
(* the adapter, synchronizer, discovery and feedback systems, run one      *)
(* system at a time in schedule order against a backend body table.        *)
(*                                                                         *)
(* Numbers.  Vec3 components are f32.  Positions and Translation events    *)
(* are counted in units of 2^-25: every value used is an integer multiple  *)
(* of that unit below 2^6, so it is an f32 value, and F32Add rounds the    *)
(* exact sum to 24 significant bits, ties to even, as the f32 addition     *)
(* does.  Impulse and Force components are counted in units of 10^-3, so   *)
(* length_squared is in units of 10^-6 and the literal 1E-6 is 1; the      *)
(* values used stay below 2^24 units, where F32Add is exact.               *)
(* Yaw angles are counted in quarter turns.                                *)
(***************************************************************************)
EXTENDS Integers, Sequences, FiniteSets, TLC

(* ------------------------------ bounds -------------------------------- *)

\* Ticks of the main loop that a behaviour runs through.
MaxTicks == 2

\* Events emitted over a behaviour, all channels together.
MaxEvents == 2

\* FakeKinematicRigidBody bodies in the world controller_to_kinematic runs
\* over.
NumBodies == 2

(* --------------------------- f32 arithmetic --------------------------- *)

\* 2^24: an f32 holds 24 significant bits.
Pow24 == 2 ^ 24

RECURSIVE Quantum(_, _)
\* The spacing of f32 values at magnitude a (in units): the least power of
\* two q with a / q < 2^24.
Quantum(a, q) == IF a \div q < Pow24 THEN q ELSE Quantum(a, 2 * q)

\* Round a >= 0 to the nearest multiple of q, ties to the even multiple.
RoundEven(a, q) ==
    LET k  == a \div q
        lo == k * q
        r  == a - lo
    IN  IF 2 * r < q THEN lo
        ELSE IF 2 * r > q THEN lo + q
        ELSE IF k % 2 = 0 THEN lo ELSE lo + q

\* The f32 nearest to the integer n (round to nearest, ties to even).
Round24(n) ==
    IF n >= 0 THEN RoundEven(n, Quantum(n, 1))
    ELSE 0 - RoundEven(0 - n, Quantum(0 - n, 1))

\* f32 a + b and a - b.
F32Add(a, b) == Round24(a + b)
F32Sub(a, b) == Round24(a - b)

\* f32 0.5 * a: exact (a is even wherever the model uses it).
F32Half(a) == a \div 2

\* 1.0 in position units (2^25).
One == 2 ^ 25

(* ------------------------------- Vec3 --------------------------------- *)

Zero3 == <<0, 0, 0>>

\* Vec3 + Vec3, componentwise f32.
VecAdd(a, b) == <<F32Add(a[1], b[1]), F32Add(a[2], b[2]), F32Add(a[3], b[3])>>

\* Vec3::length_squared (units of 10^-6 for Impulse and Force vectors).
LengthSquared(v) == v[1] * v[1] + v[2] * v[2] + v[3] * v[3]

\* The literal 1E-6 of the impulse and force adapters, in units of 10^-6.
Epsilon == 1

RECURSIVE SumFrom(_, _, _)
\* The fold `acc += event` over the events s[i..], in emission order.
SumFrom(s, i, acc) ==
    IF i > Len(s) THEN acc ELSE SumFrom(s, i + 1, VecAdd(acc, s[i]))

\* A loop that assigns instead of adding: the last event alone.
SumEvents_Assign(s) == IF s = <<>> THEN Zero3 ELSE s[Len(s)]

\* `let mut v = Vec3::zero(); for event in ... { v += **event; }`
SumEvents(s) == SumFrom(s, 1, Zero3)

(* --------------------------- Quat and pose ---------------------------- *)

\* Quat::from_rotation_y(yaw) for yaw in quarter turns: (0, sin(yaw/2), 0,
\* cos(yaw/2)), kept as <<y, w>> with 2 standing for 1 and 1 for sqrt(1/2).
FromRotationY(yaw) ==
    LET k == yaw % 8
    IN  CASE k = 0 -> <<0, 2>>
          [] k = 1 -> <<1, 1>>
          [] k = 2 -> <<2, 0>>
          [] k = 3 -> <<1, -1>>
          [] k = 4 -> <<0, -2>>
          [] k = 5 -> <<-1, -1>>
          [] k = 6 -> <<-2, 0>>
          [] k = 7 -> <<-1, 1>>

\* Quat::identity()
QuatIdentity == <<0, 2>>

\* Mat4::from_rotation_translation(rotation, translation)
FromRotationTranslation(rotation, translation) ==
    [rotation |-> rotation, translation |-> translation]

\* A translation taken from a fresh identity pose instead of the pose read.
WAxisTruncate_Origin(pose) == Zero3

\* pose.w_axis().truncate(): the translation column of a pose.
WAxisTruncate(pose) == pose.translation

(* ------------------------ character settings -------------------------- *)

\* CharacterSettings::default().scale.y(): the f32 nearest 1.9, which is
\* 63753420 * 2^-25.
ScaleY == 63753420

\* `let box_y = 1.0;` of spawn_character.
BoxY == One

\* `let min_y = 0.5 * (1.0 + character_settings.scale.y());`
MinY == F32Half(F32Add(One, ScaleY))

\* The Transform the body is spawned with:
\* (0.0, 0.5 * (box_y + character_settings.scale.y()), 0.0).
SpawnTranslation == <<0, F32Half(F32Add(BoxY, ScaleY)), 0>>

\* `Mass::new(80.0)` of the kinematic body.
KinematicMass == 80

(* --------------------------- configuration ---------------------------- *)

\* No <type> argument on the command line.
NoArg == "<absent>"

\* The command lines a behaviour may start from.
Args == {NoArg, "kinematictranslation", "DynamicImpulse", "Rapier"}

\* ControllerType::variants()
Variants == {"KinematicTranslation", "DynamicImpulse", "DynamicForce"}

\* str::to_ascii_lowercase on the strings above.
ToAsciiLowercase(s) ==
    CASE s = "KinematicTranslation" -> "kinematictranslation"
      [] s = "DynamicImpulse" -> "dynamicimpulse"
      [] s = "DynamicForce" -> "dynamicforce"
      [] s = "Rapier" -> "rapier"
      [] OTHER -> s

\* impl Default for ControllerType
DefaultControllerType == "DynamicForce"

\* The value clap hands on: the argument, or `.default_value("DynamicForce")`.
ArgValue(a) == IF a = NoArg THEN "DynamicForce" ELSE a

\* An argument declared without possible_values: any value goes on.
ClapAccepts_Anything(value) == TRUE

\* `.possible_values(&ControllerType::variants()).case_insensitive(true)`:
\* get_matches() goes on only with one of the variants, in any case.
ClapAccepts(value) ==
    \E v \in Variants : ToAsciiLowercase(v) = ToAsciiLowercase(value)

\* `value_t!(matches.value_of("type"), ControllerType)`: the FromStr of
\* arg_enum!, which compares ignoring ASCII case.
ValueT(value) ==
    IF \E v \in Variants : ToAsciiLowercase(v) = ToAsciiLowercase(value)
    THEN CHOOSE v \in Variants : ToAsciiLowercase(v) = ToAsciiLowercase(value)
    ELSE "Err"

\* `.unwrap_or(ControllerType::DynamicForce)`
UnwrapOr(r, default) == IF r = "Err" THEN default ELSE r

(* ------------------------------ schedule ------------------------------ *)

Stages == <<"PRE_UPDATE", "UPDATE">>

EmptySchedule == [PRE_UPDATE |-> <<>>, UPDATE |-> <<>>]

\* AppBuilder::add_system_to_stage: the system goes to the end of the stage.
AddSystemToStage(sched, st, sys) ==
    [sched EXCEPT ![st] = Append(@, sys)]

\* AppBuilder::add_system: the UPDATE stage.
AddSystem(sched, sys) == AddSystemToStage(sched, "UPDATE", sys)

\* A registration that puts the system at the end of the stage.
AddSystemToStageFront_Back(sched, st, sys) == AddSystemToStage(sched, st, sys)

\* AppBuilder::add_system_to_stage_front: the system goes to the front.
AddSystemToStageFront(sched, st, sys) ==
    [sched EXCEPT ![st] = <<sys>> \o @]

\* A choice that registers the force adapter whatever the type.
AdapterFor_AlwaysForce(ct) == "controller_to_physx_dynamic_force"

\* The adapter main registers for a controller type (Options A, B, C).
AdapterFor(ct) ==
    IF ct = "KinematicTranslation" THEN "controller_to_physx_kinematic"
    ELSE IF ct = "DynamicImpulse" THEN "controller_to_physx_dynamic_impulse"
    ELSE "controller_to_physx_dynamic_force"

\* A choice that registers the dynamic yaw system whatever the type.
YawFor_AlwaysDynamic(ct) == "controller_to_physx_dynamic_yaw"

\* The yaw system main registers for a controller type.
YawFor(ct) ==
    IF ct = "KinematicTranslation" THEN "controller_to_physx_kinematic_yaw"
    ELSE "controller_to_physx_dynamic_yaw"

\* The systems main registers, in the order of its calls.  The two plugins
\* stand for the one system of each that the model runs: the controller
\* plugin's event producer in PRE_UPDATE and the PhysX plugin's simulation
\* step in UPDATE.
Register(ct) ==
    LET s1 == AddSystemToStage(EmptySchedule, "PRE_UPDATE", "input_to_events")
        s2 == AddSystem(s1, "physx_step")
        s3 == AddSystem(s2, "create_mass")
        s4 == AddSystem(s3, "constrain_rotation")
        s5 == AddSystemToStageFront(s4, "PRE_UPDATE", "body_to_velocity")
        s6 == AddSystemToStageFront(s5, "UPDATE", AdapterFor(ct))
        s7 == AddSystemToStageFront(s6, "UPDATE", YawFor(ct))
    IN  AddSystemToStageFront(s7, "UPDATE", "controller_to_pitch")

Adapters == {"controller_to_physx_kinematic",
             "controller_to_physx_dynamic_impulse",
             "controller_to_physx_dynamic_force"}

YawSystems == {"controller_to_physx_kinematic_yaw",
               "controller_to_physx_dynamic_yaw"}

\* The systems of a schedule.
Registered(sched) ==
    {sched.PRE_UPDATE[i] : i \in 1..Len(sched.PRE_UPDATE)}
        \cup {sched.UPDATE[i] : i \in 1..Len(sched.UPDATE)}

(* ------------------------------- inputs ------------------------------- *)

\* Translation events a producer may emit: (1, 0, 0), (0, 8, 0) and
\* (0, -10, 0), in position units.
TranslationValues == {<<One, 0, 0>>, <<0, 8 * One, 0>>, <<0, 0 - 10 * One, 0>>}

\* Yaw events: one or two quarter turns.
YawValues == {1, 2}

\* Impulse and Force events, in units of 10^-3: (0.001, 0, 0), whose squared
\* length is the adapters' 1E-6, and (0.5, 0, 0).
ForceValues == {<<1, 0, 0>>, <<500, 0, 0>>}

\* The mass the backend computes for the new body, and a mass it may be
\* given later.
BackendMasses == <<57, 60>>

\* What a simulation step may leave a dynamic body with: a linear velocity
\* and a displacement.
StepOutcomes == {<<Zero3, Zero3>>, <<<<0, 0 - One, 0>>, <<One, 0, 0>>>>}

\* The inertia tensor the backend computes for a new body (any non-zero one).
ComputedInertia == <<1, 1, 1>>


(* ------------------------------- state -------------------------------- *)

VARIABLES
    pc,               \* "start", "startup", "running", "config_error", "panicked"
    arg,              \* the <type> argument of the command line
    controller_type,  \* the ControllerType resource
    schedule,         \* the systems of each stage, in run order
    stage,            \* "idle" between ticks, or the stage being run
    idx,              \* the next system of the stage
    tick,             \* the ticks begun
    translations,     \* Events<TranslationEvent>, in emission order
    yaws,             \* Events<YawEvent>
    impulses,         \* Events<ImpulseEvent>
    forces,           \* Events<ForceEvent>
    reader,           \* ControllerEvents: the events read of each channel
    mass,             \* the body's Mass component: <<>> when absent, or <<m>>
    constrained,      \* the body carries ConstrainedTag
    has_controller,   \* the body carries a PhysXController
    has_body_handle,  \* the body carries a PhysXDynamicRigidBodyHandle
    transform,        \* the translation of the body's Transform
    velocity,         \* CharacterController.velocity
    jumping,          \* CharacterController.jumping
    yaw_rotation,     \* the rotation of the KinematicYawTag node's Transform
    ctrl_position,    \* backend: the capsule controller's position
    body_mass,        \* backend: the dynamic body's mass
    body_velocity,    \* backend: the dynamic body's linear velocity
    body_inertia,     \* backend: the mass space inertia tensor
    body_pose,        \* backend: the dynamic body's global pose
    body_live,        \* backend: the body handle resolves to a live body
    commands,         \* Commands queued by the systems of the running stage
    ran,              \* history: the systems run so far in this tick
    log,              \* history: the add_force calls made on the backend
    mutated,          \* history: the systems that changed the backend this tick
    mass_writes,      \* history: the Mass inserts queued
    inertia_calls,    \* history: the set_mass_space_inertia_tensor calls
    velocity_tick,    \* history: the tick of the last write of velocity
    printed,          \* history: the events print_controller_events printed
    bodies            \* utils.rs: the FakeKinematicRigidBody bodies of the world

cfgVars == <<pc, arg, controller_type, schedule>>
posVars == <<stage, idx, tick, ran, mutated>>
chanVars == <<translations, yaws, impulses, forces>>
entVars == <<mass, constrained, has_controller, has_body_handle, transform,
             velocity, jumping, yaw_rotation>>
backVars == <<ctrl_position, body_mass, body_velocity, body_inertia, body_pose,
             body_live>>
histVars == <<log, mass_writes, inertia_calls, velocity_tick, printed>>

vars == <<cfgVars, posVars, chanVars, reader, entVars, backVars, commands,
          histVars, bodies>>

\* ControllerEvents::default(): no event read on any channel.
NewControllerEvents ==
    [translations |-> 0, yaws |-> 0, impulses |-> 0, forces |-> 0]

\* The process and the physx world before main runs.
InitApp ==
    /\ pc = "start"
    /\ arg \in Args
    /\ controller_type = "None"
    /\ schedule = EmptySchedule
    /\ stage = "idle"
    /\ idx = 1
    /\ tick = 0
    /\ translations = <<>>
    /\ yaws = <<>>
    /\ impulses = <<>>
    /\ forces = <<>>
    /\ reader = NewControllerEvents
    /\ mass = <<>>
    /\ constrained = FALSE
    /\ has_controller = FALSE
    /\ has_body_handle = FALSE
    /\ transform = Zero3
    /\ velocity = Zero3
    /\ jumping = FALSE
    /\ yaw_rotation = QuatIdentity
    /\ ctrl_position = Zero3
    /\ body_mass = 0
    /\ body_velocity = Zero3
    /\ body_inertia = ComputedInertia
    /\ body_pose = FromRotationTranslation(QuatIdentity, Zero3)
    /\ body_live = FALSE
    /\ commands = {}
    /\ ran = {}
    /\ log = <<>>
    /\ mutated = {}
    /\ mass_writes = 0
    /\ inertia_calls = 0
    /\ velocity_tick = 0
    /\ printed = [translations |-> <<>>, yaws |-> <<>>]

\* The world of physx.rs has no FakeKinematicRigidBody body.
Init == InitApp /\ bodies = <<>>

(* ------------------------------ startup ------------------------------- *)

\* main, up to app.run(): clap ends the process with an error on a value
\* that is none of the variants; otherwise the systems are registered.
Main ==
    /\ pc = "start"
    /\ LET value == ArgValue(arg)
       IN  IF ClapAccepts(value)
           THEN LET ct == UnwrapOr(ValueT(value), DefaultControllerType)
                IN  /\ controller_type' = ct
                    /\ schedule' = Register(ct)
                    /\ pc' = "startup"
           ELSE /\ pc' = "config_error"
                /\ UNCHANGED <<controller_type, schedule>>
    /\ UNCHANGED <<arg, posVars, chanVars, reader, entVars, backVars,
                   commands, histVars, bodies>>

\* The startup system spawn_character: the body entity, with Mass 80 under
\* KinematicTranslation and without Mass otherwise.
SpawnCharacter ==
    /\ pc = "startup"
    /\ pc' = "running"
    /\ transform' = SpawnTranslation
    /\ velocity' = Zero3
    /\ jumping' = FALSE
    /\ yaw_rotation' = QuatIdentity
    /\ mass' = IF controller_type = "KinematicTranslation"
               THEN <<KinematicMass>> ELSE <<>>
    /\ UNCHANGED <<arg, controller_type, schedule, posVars, chanVars, reader,
                   constrained, has_controller, has_body_handle, backVars,
                   commands, histVars, bodies>>

\* The PhysX plugin turns the body's descriptors into a backend body between
\* two ticks: a capsule controller at the Transform's translation for a
\* PhysXCapsuleControllerDesc, a dynamic rigid body for a
\* PhysXRigidBodyDesc::Dynamic, with the mass the backend computes.
PhysXCreateBody ==
    /\ pc = "running"
    /\ stage = "idle"
    /\ ~has_controller
    /\ ~has_body_handle
    /\ IF controller_type = "KinematicTranslation"
       THEN /\ has_controller' = TRUE
            /\ ctrl_position' = transform
            /\ UNCHANGED <<has_body_handle, body_mass, body_velocity,
                           body_inertia, body_pose, body_live>>
       ELSE /\ has_body_handle' = TRUE
            /\ body_live' = TRUE
            /\ body_mass' = BackendMasses[1]
            /\ body_pose' = FromRotationTranslation(QuatIdentity, transform)
            /\ UNCHANGED <<has_controller, ctrl_position, body_velocity,
                           body_inertia>>
    /\ UNCHANGED <<cfgVars, posVars, chanVars, reader, mass, constrained,
                   transform, velocity, jumping, yaw_rotation, commands,
                   histVars, bodies>>

\* The backend's mass of the body changes out of band, between two ticks.
BackendSetMass ==
    /\ pc = "running"
    /\ stage = "idle"
    /\ has_body_handle
    /\ body_live
    /\ body_mass = BackendMasses[1]
    /\ body_mass' = BackendMasses[2]
    /\ UNCHANGED <<cfgVars, posVars, chanVars, reader, entVars, ctrl_position,
                   body_velocity, body_inertia, body_pose, body_live, commands,
                   histVars, bodies>>

\* The backend body is released out of band, between two ticks or between
\* two stages of a tick, while the entity keeps its handle.
BackendReleaseBody ==
    /\ pc = "running"
    /\ IF stage = "idle" THEN TRUE ELSE idx > Len(schedule[stage])
    /\ has_body_handle
    /\ body_live
    /\ body_live' = FALSE
    /\ UNCHANGED <<cfgVars, posVars, chanVars, reader, entVars, ctrl_position,
                   body_mass, body_velocity, body_inertia, body_pose, commands,
                   histVars, bodies>>

(* ------------------------------ the tick ------------------------------ *)

\* The system about to run is sys.
Runs(sys) ==
    /\ pc = "running"
    /\ stage \in {"PRE_UPDATE", "UPDATE"}
    /\ idx <= Len(schedule[stage])
    /\ schedule[stage][idx] = sys

\* The schedule goes on to the next system of the stage.
Advance(sys) ==
    /\ idx' = idx + 1
    /\ ran' = ran \cup {sys}
    /\ UNCHANGED <<stage, tick>>

\* The events of a channel that the shared reader has not read yet.
Unread(events, cursor) == SubSeq(events, cursor + 1, Len(events))

\* The events emitted so far.
Emitted == Len(translations) + Len(yaws) + Len(impulses) + Len(forces)

\* App::update begins a tick with the first stage.
BeginTick ==
    /\ pc = "running"
    /\ stage = "idle"
    /\ tick < MaxTicks
    /\ tick' = tick + 1
    /\ stage' = "PRE_UPDATE"
    /\ idx' = 1
    /\ ran' = {}
    /\ mutated' = {}
    /\ UNCHANGED <<cfgVars, chanVars, reader, entVars, backVars, commands,
                   histVars, bodies>>

\* The Mass a queue of Commands leaves the body with.
ApplyMass(cmds, m) ==
    IF \E c \in cmds : c[1] = "Mass"
    THEN <<(CHOOSE c \in cmds : c[1] = "Mass")[2]>>
    ELSE m

\* The end of a stage: the Commands queued by its systems are applied, and
\* the next stage begins or the tick ends.
StageEnd ==
    /\ pc = "running"
    /\ stage \in {"PRE_UPDATE", "UPDATE"}
    /\ idx > Len(schedule[stage])
    /\ mass' = ApplyMass(commands, mass)
    /\ constrained' = (constrained \/ <<"ConstrainedTag", 0>> \in commands)
    /\ commands' = {}
    /\ idx' = 1
    /\ stage' = IF stage = "PRE_UPDATE" THEN "UPDATE" ELSE "idle"
    /\ UNCHANGED <<cfgVars, tick, ran, mutated, chanVars, reader,
                   has_controller, has_body_handle, transform, velocity,
                   jumping, yaw_rotation, backVars, histVars, bodies>>

(* ------------------ the controller plugin's producer ------------------ *)

EmitTranslation ==
    /\ Runs("input_to_events")
    /\ Emitted < MaxEvents
    /\ \E v \in TranslationValues : translations' = Append(translations, v)
    /\ UNCHANGED <<cfgVars, posVars, yaws, impulses, forces, reader, entVars,
                   backVars, commands, histVars, bodies>>

EmitYaw ==
    /\ Runs("input_to_events")
    /\ Emitted < MaxEvents
    /\ \E y \in YawValues : yaws' = Append(yaws, y)
    /\ UNCHANGED <<cfgVars, posVars, translations, impulses, forces, reader,
                   entVars, backVars, commands, histVars, bodies>>

EmitImpulse ==
    /\ Runs("input_to_events")
    /\ Emitted < MaxEvents
    /\ \E v \in ForceValues : impulses' = Append(impulses, v)
    /\ UNCHANGED <<cfgVars, posVars, translations, yaws, forces, reader,
                   entVars, backVars, commands, histVars, bodies>>

EmitForce ==
    /\ Runs("input_to_events")
    /\ Emitted < MaxEvents
    /\ \E v \in ForceValues : forces' = Append(forces, v)
    /\ UNCHANGED <<cfgVars, posVars, translations, yaws, impulses, reader,
                   entVars, backVars, commands, histVars, bodies>>

\* The controller starts a jump.
InputJump ==
    /\ Runs("input_to_events")
    /\ ~jumping
    /\ jumping' = TRUE
    /\ UNCHANGED <<cfgVars, posVars, chanVars, reader, mass, constrained,
                   has_controller, has_body_handle, transform, velocity,
                   yaw_rotation, backVars, commands, histVars, bodies>>

\* The producer is done for this tick.
InputDone ==
    /\ Runs("input_to_events")
    /\ Advance("input_to_events")
    /\ UNCHANGED <<cfgVars, mutated, chanVars, reader, entVars, backVars,
                   commands, histVars, bodies>>

\* controller_to_pitch turns the head; it touches nothing of this model.
ControllerToPitch ==
    /\ Runs("controller_to_pitch")
    /\ Advance("controller_to_pitch")
    /\ UNCHANGED <<cfgVars, mutated, chanVars, reader, entVars, backVars,
                   commands, histVars, bodies>>

(* --------------------- the systems of physx.rs ------------------------ *)

\* A lookup that goes on to the next system when the handle resolves to no
\* body, as `if let Some(body) = ...` would.
Panic_SilentSkip ==
    /\ idx' = idx + 1
    /\ UNCHANGED <<cfgVars, stage, tick, ran, mutated, chanVars, reader,
                   entVars, backVars, commands, histVars, bodies>>

\* `.expect("Failed to get dynamic rigid body")` on a handle that resolves
\* to no body: the process panics.
Panic ==
    /\ pc' = "panicked"
    /\ UNCHANGED <<arg, controller_type, schedule, posVars, chanVars, reader,
                   entVars, backVars, commands, histVars, bodies>>

\* A query that leaves the Without<ConstrainedTag> filter out.
ConstrainRotationMatches_NoFilter == has_body_handle

\* The query of constrain_rotation: BodyTag and PhysXDynamicRigidBodyHandle,
\* Without<ConstrainedTag>.
ConstrainRotationMatches == has_body_handle /\ ~constrained

\* constrain_rotation, over the entities its query matches.
ConstrainRotation ==
    /\ Runs("constrain_rotation")
    /\ IF ConstrainRotationMatches
       THEN IF body_live
            THEN /\ body_inertia' = Zero3
                 /\ inertia_calls' = inertia_calls + 1
                 /\ commands' = commands \cup {<<"ConstrainedTag", 0>>}
                 /\ mutated' = mutated \cup {"constrain_rotation"}
                 /\ Advance("constrain_rotation")
                 /\ UNCHANGED <<cfgVars, chanVars, reader, entVars,
                                ctrl_position, body_mass, body_velocity,
                                body_pose, body_live, log, mass_writes,
                                velocity_tick, printed, bodies>>
            ELSE Panic
       ELSE /\ Advance("constrain_rotation")
            /\ UNCHANGED <<cfgVars, mutated, chanVars, reader, entVars,
                           backVars, commands, histVars, bodies>>

\* A query that leaves the Without<Mass> filter out.
CreateMassMatches_NoFilter == has_body_handle

\* The query of create_mass: PhysXDynamicRigidBodyHandle, Without<Mass>.
CreateMassMatches == has_body_handle /\ mass = <<>>

\* create_mass, over the entities its query matches.
CreateMass ==
    /\ Runs("create_mass")
    /\ IF CreateMassMatches
       THEN IF body_live
            THEN /\ commands' = commands \cup {<<"Mass", body_mass>>}
                 /\ mass_writes' = mass_writes + 1
                 /\ Advance("create_mass")
                 /\ UNCHANGED <<cfgVars, mutated, chanVars, reader, entVars,
                                backVars, log, inertia_calls, velocity_tick,
                                printed, bodies>>
            ELSE Panic
       ELSE /\ Advance("create_mass")
            /\ UNCHANGED <<cfgVars, mutated, chanVars, reader, entVars,
                           backVars, commands, histVars, bodies>>

\* A query that matches no entity.
BodyToVelocityMatches_Never == FALSE

\* The query of body_to_velocity: BodyTag, PhysXDynamicRigidBodyHandle and
\* CharacterController.
BodyToVelocityMatches == has_body_handle

\* A read of the body's position in place of its velocity.
GetLinearVelocity_Position == body_pose.translation

\* `body.get_linear_velocity()`
GetLinearVelocity == body_velocity

\* body_to_velocity, once for the entity its parameters match.
BodyToVelocity ==
    /\ Runs("body_to_velocity")
    /\ IF BodyToVelocityMatches
       THEN IF body_live
            THEN /\ velocity' = GetLinearVelocity
                 /\ velocity_tick' = tick
                 /\ Advance("body_to_velocity")
                 /\ UNCHANGED <<cfgVars, mutated, chanVars, reader, mass,
                                constrained, has_controller, has_body_handle,
                                transform, jumping, yaw_rotation, backVars,
                                commands, log, mass_writes, inertia_calls,
                                printed, bodies>>
            ELSE Panic
       ELSE /\ Advance("body_to_velocity")
            /\ UNCHANGED <<cfgVars, mutated, chanVars, reader, entVars,
                           backVars, commands, histVars, bodies>>

\* A comparison that engages the clamp at min_y itself.
ClampEngaged_AtMinY(position, translation) ==
    F32Add(position[2], translation[2]) <= MinY

\* `position.y() + translation.y() < min_y`
ClampEngaged(position, translation) ==
    F32Add(position[2], translation[2]) < MinY

\* `*translation.y_mut() = min_y - position.y();` when the clamp engages.
ClampedTranslation(position, translation) ==
    IF ClampEngaged(position, translation)
    THEN <<translation[1], F32Sub(MinY, position[2]), translation[3]>>
    ELSE translation

\* `controller.jumping = false;` when the clamp engages.
JumpingAfter(position, translation, j) ==
    IF ClampEngaged(position, translation) THEN FALSE ELSE j

\* An assignment of the delta in place of the addition.
Translate_Assign(t, translation) == translation

\* `transform.translate(translation)`: Transform::translate adds the delta
\* to the translation.
Translate(t, translation) == VecAdd(t, translation)

\* controller_to_physx_kinematic, once for the BodyTag entity that carries a
\* PhysXController.
ControllerToPhysxKinematic ==
    /\ Runs("controller_to_physx_kinematic")
    /\ IF has_controller
       THEN LET summed == SumEvents(Unread(translations, reader.translations))
                position == ctrl_position
                translation == ClampedTranslation(position, summed)
            IN  /\ reader' = [reader EXCEPT !.translations = Len(translations)]
                /\ jumping' = JumpingAfter(position, summed, jumping)
                /\ ctrl_position' = VecAdd(position, translation)
                /\ transform' = Translate(transform, translation)
                /\ mutated' = mutated \cup {"controller_to_physx_kinematic"}
                /\ UNCHANGED <<mass, constrained, has_controller,
                               has_body_handle, velocity, yaw_rotation,
                               body_mass, body_velocity, body_inertia,
                               body_pose, body_live>>
       ELSE UNCHANGED <<reader, mutated, entVars, backVars>>
    /\ Advance("controller_to_physx_kinematic")
    /\ UNCHANGED <<cfgVars, chanVars, commands, histVars, bodies>>

\* A comparison that lets a squared length of exactly 1E-6 through.
Submits_AtEpsilon(v) == LengthSquared(v) >= Epsilon

\* `length_squared() > 1E-6`
Submits(v) == LengthSquared(v) > Epsilon

\* An add_force call that passes ForceMode::Force whatever the adapter.
AddForce_ModeForce(sys, mode, v, first, last) ==
    [sys |-> sys, mode |-> "Force", vec |-> v, first |-> first, last |-> last,
     tick |-> tick, step |-> 0]

\* The record of one add_force call: the system, the mode, the vector, the
\* events summed into it, the tick, and the tick of the simulation step that
\* integrates it (0 until then).
AddForce(sys, mode, v, first, last) ==
    [sys |-> sys, mode |-> mode, vec |-> v, first |-> first, last |-> last,
     tick |-> tick, step |-> 0]

\* controller_to_physx_dynamic_impulse, once for the BodyTag entity that
\* carries a dynamic body handle.
ControllerToPhysxDynamicImpulse ==
    /\ Runs("controller_to_physx_dynamic_impulse")
    /\ IF has_body_handle
       THEN LET impulse == SumEvents(Unread(impulses, reader.impulses))
            IN  IF Submits(impulse) /\ ~body_live
                THEN Panic
                ELSE /\ reader' = [reader EXCEPT !.impulses = Len(impulses)]
                     /\ IF Submits(impulse)
                        THEN /\ log' = Append(log,
                                    AddForce("controller_to_physx_dynamic_impulse",
                                             "Impulse", impulse,
                                             reader.impulses + 1, Len(impulses)))
                             /\ mutated' = mutated \cup
                                    {"controller_to_physx_dynamic_impulse"}
                        ELSE UNCHANGED <<log, mutated>>
                     /\ Advance("controller_to_physx_dynamic_impulse")
                     /\ UNCHANGED <<cfgVars, chanVars, entVars, backVars,
                                    commands, mass_writes, inertia_calls,
                                    velocity_tick, printed, bodies>>
       ELSE /\ Advance("controller_to_physx_dynamic_impulse")
            /\ UNCHANGED <<cfgVars, mutated, chanVars, reader, entVars,
                           backVars, commands, histVars, bodies>>

\* controller_to_physx_dynamic_force, once for the BodyTag entity that
\* carries a dynamic body handle.
ControllerToPhysxDynamicForce ==
    /\ Runs("controller_to_physx_dynamic_force")
    /\ IF has_body_handle
       THEN LET force == SumEvents(Unread(forces, reader.forces))
            IN  IF Submits(force) /\ ~body_live
                THEN Panic
                ELSE /\ reader' = [reader EXCEPT !.forces = Len(forces)]
                     /\ IF Submits(force)
                        THEN /\ log' = Append(log,
                                    AddForce("controller_to_physx_dynamic_force",
                                             "Force", force,
                                             reader.forces + 1, Len(forces)))
                             /\ mutated' = mutated \cup
                                    {"controller_to_physx_dynamic_force"}
                        ELSE UNCHANGED <<log, mutated>>
                     /\ Advance("controller_to_physx_dynamic_force")
                     /\ UNCHANGED <<cfgVars, chanVars, entVars, backVars,
                                    commands, mass_writes, inertia_calls,
                                    velocity_tick, printed, bodies>>
       ELSE /\ Advance("controller_to_physx_dynamic_force")
            /\ UNCHANGED <<cfgVars, mutated, chanVars, reader, entVars,
                           backVars, commands, histVars, bodies>>

RECURSIVE LastFrom(_, _, _)
\* The fold `yaw = Some(**event)` over the events s[i..]: <<>> is None and
\* <<y>> is Some(y).
LastFrom(s, i, acc) ==
    IF i > Len(s) THEN acc ELSE LastFrom(s, i + 1, <<s[i]>>)

RECURSIVE YawSumFrom(_, _, _)
YawSumFrom(s, i, acc) ==
    IF i > Len(s) THEN acc ELSE YawSumFrom(s, i + 1, acc + s[i])

\* A yaw that starts at Some(0.0) instead of None.
LastYaw_FromZero(s) == LastFrom(s, 1, <<0>>)

\* A loop that adds the yaws up instead of keeping the last.
LastYaw_Summed(s) == IF s = <<>> THEN <<>> ELSE <<YawSumFrom(s, 1, 0)>>

\* `let mut yaw = None; for event in ... { yaw = Some(**event); }`
LastYaw(s) == LastFrom(s, 1, <<>>)

\* controller_to_physx_kinematic_yaw, once for the KinematicYawTag node the
\* kinematic body is spawned with.
ControllerToPhysxKinematicYaw ==
    /\ Runs("controller_to_physx_kinematic_yaw")
    /\ LET yaw == LastYaw(Unread(yaws, reader.yaws))
       IN  /\ reader' = [reader EXCEPT !.yaws = Len(yaws)]
           /\ yaw_rotation' = IF yaw # <<>> THEN FromRotationY(yaw[1])
                              ELSE yaw_rotation
    /\ Advance("controller_to_physx_kinematic_yaw")
    /\ UNCHANGED <<cfgVars, mutated, chanVars, mass, constrained,
                   has_controller, has_body_handle, transform, velocity,
                   jumping, backVars, commands, histVars, bodies>>

\* controller_to_physx_dynamic_yaw, once for the BodyTag entity that carries
\* a dynamic body handle.
ControllerToPhysxDynamicYaw ==
    /\ Runs("controller_to_physx_dynamic_yaw")
    /\ IF has_body_handle
       THEN LET yaw == LastYaw(Unread(yaws, reader.yaws))
            IN  IF yaw # <<>> /\ ~body_live
                THEN Panic
                ELSE /\ reader' = [reader EXCEPT !.yaws = Len(yaws)]
                     /\ IF yaw # <<>>
                        THEN /\ body_pose' = FromRotationTranslation(
                                    FromRotationY(yaw[1]),
                                    WAxisTruncate(body_pose))
                             /\ mutated' = mutated \cup
                                    {"controller_to_physx_dynamic_yaw"}
                        ELSE UNCHANGED <<body_pose, mutated>>
                     /\ Advance("controller_to_physx_dynamic_yaw")
                     /\ UNCHANGED <<cfgVars, chanVars, entVars, ctrl_position,
                                    body_mass, body_velocity, body_inertia,
                                    body_live, commands, histVars, bodies>>
       ELSE /\ Advance("controller_to_physx_dynamic_yaw")
            /\ UNCHANGED <<cfgVars, mutated, chanVars, reader, entVars,
                           backVars, commands, histVars, bodies>>

(* ----------------------- the simulation step -------------------------- *)

\* The add_force calls not integrated yet are integrated by the step of
\* tick t.
Integrate(l, t) ==
    [i \in 1..Len(l) |-> IF l[i].step = 0 THEN [l[i] EXCEPT !.step = t]
                         ELSE l[i]]

\* The PhysX plugin's simulation step: it integrates the forces and impulses
\* added since the last step and leaves a live dynamic body with some
\* velocity and displacement; a capsule controller stays where it was put.
PhysXStep ==
    /\ Runs("physx_step")
    /\ log' = Integrate(log, tick)
    /\ IF has_body_handle /\ body_live
       THEN \E out \in StepOutcomes :
                 /\ body_velocity' = out[1]
                 /\ body_pose' = FromRotationTranslation(body_pose.rotation,
                                      VecAdd(body_pose.translation, out[2]))
       ELSE UNCHANGED <<body_velocity, body_pose>>
    /\ Advance("physx_step")
    /\ UNCHANGED <<cfgVars, mutated, chanVars, reader, entVars, ctrl_position,
                   body_mass, body_inertia, body_live, commands, mass_writes,
                   inertia_calls, velocity_tick, printed, bodies>>

(* --------------------------- specification ---------------------------- *)

Next ==
    \/ Main
    \/ SpawnCharacter
    \/ PhysXCreateBody
    \/ BackendSetMass
    \/ BackendReleaseBody
    \/ BeginTick
    \/ StageEnd
    \/ EmitTranslation
    \/ EmitYaw
    \/ EmitImpulse
    \/ EmitForce
    \/ InputJump
    \/ InputDone
    \/ ControllerToPitch
    \/ BodyToVelocity
    \/ ControllerToPhysxKinematic
    \/ ControllerToPhysxDynamicImpulse
    \/ ControllerToPhysxDynamicForce
    \/ ControllerToPhysxKinematicYaw
    \/ ControllerToPhysxDynamicYaw
    \/ PhysXStep
    \/ CreateMass
    \/ ConstrainRotation

Spec == Init /\ [][Next]_vars

(* ------------- the app with print_controller_events added -------------- *)

\* main of physx.rs with `.add_system(print_controller_events.system())`
\* of events.rs after its own registrations: a second system that reads the
\* Translation and Yaw channels through the ControllerEvents resource.
MainWithPrintControllerEvents ==
    /\ pc = "start"
    /\ LET value == ArgValue(arg)
       IN  IF ClapAccepts(value)
           THEN LET ct == UnwrapOr(ValueT(value), DefaultControllerType)
                IN  /\ controller_type' = ct
                    /\ schedule' = AddSystem(Register(ct),
                                             "print_controller_events")
                    /\ pc' = "startup"
           ELSE /\ pc' = "config_error"
                /\ UNCHANGED <<controller_type, schedule>>
    /\ UNCHANGED <<arg, posVars, chanVars, reader, entVars, backVars,
                   commands, histVars, bodies>>

\* print_controller_events: it prints the events `reader.translations` and
\* `reader.yaws` have not read yet, which reads them.
PrintControllerEvents ==
    /\ Runs("print_controller_events")
    /\ printed' =
         [translations |-> printed.translations
                             \o Unread(translations, reader.translations),
          yaws |-> printed.yaws \o Unread(yaws, reader.yaws)]
    /\ reader' = [reader EXCEPT !.translations = Len(translations),
                                !.yaws = Len(yaws)]
    /\ Advance("print_controller_events")
    /\ UNCHANGED <<cfgVars, mutated, chanVars, entVars, backVars, commands,
                   log, mass_writes, inertia_calls, velocity_tick, bodies>>

\* The kinematic configuration of that app.
InitWithPrintControllerEvents == Init /\ arg = "kinematictranslation"

NextWithPrintControllerEvents ==
    \/ MainWithPrintControllerEvents
    \/ SpawnCharacter
    \/ PhysXCreateBody
    \/ BeginTick
    \/ StageEnd
    \/ EmitTranslation
    \/ EmitYaw
    \/ EmitImpulse
    \/ EmitForce
    \/ InputJump
    \/ InputDone
    \/ ControllerToPitch
    \/ BodyToVelocity
    \/ ControllerToPhysxKinematic
    \/ ControllerToPhysxKinematicYaw
    \/ PhysXStep
    \/ CreateMass
    \/ ConstrainRotation
    \/ PrintControllerEvents

SpecWithPrintControllerEvents ==
    InitWithPrintControllerEvents /\ [][NextWithPrintControllerEvents]_vars

(* ------- controller_to_kinematic of utils.rs over several bodies ------- *)

\* A body as utils.rs spawns it: Transform::identity(), and the jumping flag
\* of its CharacterController as the controller's input has left it.
SpawnedBodies == [translation : {Zero3}, jumping : BOOLEAN]

\* The orders in which the query can visit the bodies.
QueryOrders ==
    {o \in [1..NumBodies -> 1..NumBodies] :
        \A i, j \in 1..NumBodies : o[i] = o[j] => i = j}

RECURSIVE AddEachFrom(_, _, _)
\* `for translation in ... { transform.translation += **translation; }`
\* over the events s[i..].
AddEachFrom(t, s, i) ==
    IF i > Len(s) THEN t ELSE AddEachFrom(VecAdd(t, s[i]), s, i + 1)

\* `if transform.translation.y < 0.0 { ... y = 0.0; jumping = false; }`
ClampAtZero(body) ==
    IF body.translation[2] < 0
    THEN [translation |-> <<body.translation[1], 0, body.translation[3]>>,
          jumping |-> FALSE]
    ELSE body

\* One pass of the loop over the bodies: the body is moved by the events it
\* is given and clamped.
VisitBody(body, events) ==
    ClampAtZero([body EXCEPT !.translation = AddEachFrom(@, events, 1)])

RECURSIVE VisitFrom(_, _, _, _)
\* The loop `for (mut transform, mut controller) in query.iter_mut()` from
\* the k-th body of the order on: each pass iterates reader.translations,
\* which leaves that cursor at the tail of the channel for the next pass.
VisitFrom(bs, order, k, cursor) ==
    IF k > Len(order) THEN bs
    ELSE VisitFrom([bs EXCEPT ![order[k]] =
                        VisitBody(@, Unread(translations, cursor))],
                   order, k + 1, Len(translations))

\* The world of utils.rs with NumBodies bodies spawned.
InitBodies == InitApp /\ arg = NoArg /\ bodies \in [1..NumBodies -> SpawnedBodies]

\* A TranslationEvent is sent between two runs of controller_to_kinematic.
SendTranslation ==
    /\ Len(translations) < MaxEvents
    /\ \E v \in TranslationValues : translations' = Append(translations, v)
    /\ UNCHANGED <<cfgVars, posVars, yaws, impulses, forces, reader, entVars,
                   backVars, commands, histVars, bodies>>

\* The controller's input starts a jump of one of the bodies.
BodyJump ==
    /\ \E b \in 1..NumBodies :
         /\ ~bodies[b].jumping
         /\ bodies' = [bodies EXCEPT ![b].jumping = TRUE]
    /\ UNCHANGED <<cfgVars, posVars, chanVars, reader, entVars, backVars,
                   commands, histVars>>

\* controller_to_kinematic, once per tick, over every body of its query.
ControllerToKinematic ==
    /\ tick < MaxTicks
    /\ tick' = tick + 1
    /\ \E order \in QueryOrders :
         bodies' = VisitFrom(bodies, order, 1, reader.translations)
    /\ reader' = [reader EXCEPT !.translations = Len(translations)]
    /\ UNCHANGED <<cfgVars, stage, idx, ran, mutated, chanVars, entVars,
                   backVars, commands, histVars>>

NextBodies ==
    \/ SendTranslation
    \/ BodyJump
    \/ ControllerToKinematic

SpecBodies == InitBodies /\ [][NextBodies]_vars

(* ------------------------------ claims -------------------------------- *)

\* The kinematic adapter is about to run for the body.
KinematicActs == Runs("controller_to_physx_kinematic") /\ has_controller

\* C1: when the kinematic adapter runs with backend position p and unread
\* Translation events summing to d, it writes p + d to the backend, except
\* that when p.y + d.y < min_y the written Y is min_y exactly; and whenever
\* that replacement happened, jumping is false afterwards.
C1_PositionIsSumOrExactlyMinY ==
    [][KinematicActs =>
         LET d == SumEvents(Unread(translations, reader.translations))
             p == ctrl_position
         IN  IF F32Add(p[2], d[2]) < MinY
             THEN /\ ctrl_position' = <<F32Add(p[1], d[1]), MinY,
                                        F32Add(p[3], d[3])>>
                  /\ ~jumping'
             ELSE ctrl_position' = VecAdd(p, d)]_vars

\* The last event of a non-empty sequence.
Last(s) == s[Len(s)]

\* C2: when a yaw synchronizer drains a non-empty sequence of Yaw events,
\* the rotation it writes (the yaw node's under the kinematic variant, the
\* backend pose's under the dynamic variant) is the rotation about Y by the
\* last event alone.
C2_LastYawWins ==
    [][LET unread == Unread(yaws, reader.yaws)
       IN  /\ Runs("controller_to_physx_kinematic_yaw") /\ unread # <<>>
                => yaw_rotation' = FromRotationY(Last(unread))
           /\ Runs("controller_to_physx_dynamic_yaw") /\ has_body_handle
                /\ body_live /\ unread # <<>>
                => body_pose'.rotation = FromRotationY(Last(unread))]_vars

\* C2 witness: the dynamic yaw synchronizer has drained two different Yaw
\* events in the first tick and the body's pose carries the second.
C2_Witness ==
    /\ tick = 1
    /\ "controller_to_physx_dynamic_yaw" \in ran
    /\ Len(yaws) = 2
    /\ yaws[1] # yaws[2]
    /\ reader.yaws = 2
    /\ body_pose.rotation = FromRotationY(yaws[2])

RECURSIVE ExactSum(_, _)
\* The sum of the vectors s[i..], in exact integer arithmetic.
ExactSum(s, i) ==
    IF i > Len(s) THEN Zero3
    ELSE LET r == ExactSum(s, i + 1)
         IN  <<s[i][1] + r[1], s[i][2] + r[2], s[i][3] + r[3]>>

\* The squared length of the sum of the unread events of a channel.
UnreadSquared(events, cursor) ==
    LET v == ExactSum(events, cursor + 1)
    IN  v[1] * v[1] + v[2] * v[2] + v[3] * v[3]

\* C3: a run of the impulse or of the force adapter in which the unread
\* events sum to a squared length of at most 1E-6 (none at all, or exactly
\* 1E-6) makes no add_force call.
C3_NoCommandAtOrBelowEpsilon ==
    [][/\ Runs("controller_to_physx_dynamic_impulse")
            /\ UnreadSquared(impulses, reader.impulses) <= Epsilon
            => log' = log
       /\ Runs("controller_to_physx_dynamic_force")
            /\ UnreadSquared(forces, reader.forces) <= Epsilon
            => log' = log]_vars

\* C3 witness: the impulse adapter has drained one event of squared length
\* exactly 1E-6 for a live body and no add_force call was made.
C3_Witness ==
    /\ has_body_handle
    /\ body_live
    /\ "controller_to_physx_dynamic_impulse" \in ran
    /\ impulses = << <<1, 0, 0>> >>
    /\ reader.impulses = 1
    /\ log = <<>>

\* The events of the channel an add_force call was built from.
ChannelOf(entry) == IF entry.mode = "Impulse" THEN impulses ELSE forces

\* The add_force calls on record are built from disjoint, ascending runs of
\* events, each carrying the sum of its run.
LogAppliesEachEventOnce ==
    /\ \A i \in 1..Len(log) :
         /\ log[i].first <= log[i].last
         /\ log[i].last <= Len(ChannelOf(log[i]))
         /\ log[i].vec = ExactSum(SubSeq(ChannelOf(log[i]), 1, log[i].last),
                                  log[i].first)
    /\ \A i, j \in 1..Len(log) :
         i < j /\ log[i].mode = log[j].mode => log[i].last < log[j].first

\* C4: when the impulse (force) adapter runs for the live body and the
\* unread Impulse (Force) events sum to a squared length above 1E-6, it adds
\* exactly one add_force call, carrying that sum; every run leaves the cursor
\* at the tail, and no event is summed into two calls.
C4_OneCommandPerDrain ==
    [][/\ Runs("controller_to_physx_dynamic_impulse") /\ has_body_handle
            /\ body_live
            => /\ reader'.impulses = Len(impulses)
               /\ UnreadSquared(impulses, reader.impulses) > Epsilon
                    => /\ Len(log') = Len(log) + 1
                       /\ SubSeq(log', 1, Len(log)) = log
                       /\ Last(log').vec = ExactSum(impulses, reader.impulses + 1)
                       /\ Last(log').mode = "Impulse"
       /\ Runs("controller_to_physx_dynamic_force") /\ has_body_handle
            /\ body_live
            => /\ reader'.forces = Len(forces)
               /\ UnreadSquared(forces, reader.forces) > Epsilon
                    => /\ Len(log') = Len(log) + 1
                       /\ SubSeq(log', 1, Len(log)) = log
                       /\ Last(log').vec = ExactSum(forces, reader.forces + 1)
                       /\ Last(log').mode = "Force"
       /\ LogAppliesEachEventOnce']_vars

\* C4 witness: two Impulse events of one tick went into one call carrying
\* their sum (1.0, 0, 0).
C4_Witness ==
    /\ Len(impulses) = 2
    /\ Len(log) = 1
    /\ log[1].first = 1
    /\ log[1].last = 2
    /\ log[1].vec = <<1000, 0, 0>>
    /\ log[1].mode = "Impulse"

\* C5: create_mass queues at most one Mass insert over a behaviour; the
\* insert it queues for a body without Mass carries the backend's mass of
\* that moment; and a Mass the body has is never changed afterwards,
\* whatever the backend's mass becomes.
C5_MassWrittenOnce ==
    [][/\ mass_writes' <= 1
       /\ mass # <<>> => mass' = mass
       /\ Runs("create_mass") /\ has_body_handle /\ body_live /\ mass = <<>>
            => /\ commands' = commands \cup {<<"Mass", body_mass>>}
               /\ mass_writes' = mass_writes + 1
       /\ Runs("create_mass") /\ mass # <<>>
            => commands' = commands /\ mass_writes' = mass_writes
       /\ mass = <<>> /\ mass' # <<>> /\ pc = "running"
            => mass' = <<body_mass>>]_vars

\* C5 witness: create_mass has run again in the second tick, after the
\* backend's mass changed, and the body still has the Mass of the first.
C5_Witness ==
    /\ tick = 2
    /\ "create_mass" \in ran
    /\ mass = <<BackendMasses[1]>>
    /\ body_mass = BackendMasses[2]
    /\ mass_writes = 1

\* C6: constrain_rotation zeroes the inertia tensor at most once over a
\* behaviour; it does so, and queues ConstrainedTag, the first time it runs
\* for a live dynamic body without the tag, so that the tag is on the body
\* when the tick ends; and a run for a body with the tag makes no backend
\* call.
C6_InertiaZeroedOnce ==
    [][/\ inertia_calls' <= 1
       /\ Runs("constrain_rotation") /\ has_body_handle /\ body_live
            /\ ~constrained
            => /\ body_inertia' = Zero3
               /\ inertia_calls' = inertia_calls + 1
               /\ <<"ConstrainedTag", 0>> \in commands'
       /\ Runs("constrain_rotation") /\ constrained
            => /\ inertia_calls' = inertia_calls
               /\ mutated' = mutated
               /\ backVars' = backVars
       /\ stage = "UPDATE" /\ stage' = "idle" /\ has_body_handle
            => constrained' /\ inertia_calls' = 1]_vars

\* C6 witness: constrain_rotation has run in the second tick for a body
\* that got its tag in the first, and the one call of the first tick is the
\* only one.
C6_Witness ==
    /\ tick = 2
    /\ "constrain_rotation" \in ran
    /\ constrained
    /\ body_inertia = Zero3
    /\ inertia_calls = 1

\* The adapter and the yaw system that belong to a controller type.
Expected(ct) ==
    CASE ct = "KinematicTranslation" ->
           {"controller_to_physx_kinematic",
            "controller_to_physx_kinematic_yaw"}
      [] ct = "DynamicImpulse" ->
           {"controller_to_physx_dynamic_impulse",
            "controller_to_physx_dynamic_yaw"}
      [] ct = "DynamicForce" ->
           {"controller_to_physx_dynamic_force",
            "controller_to_physx_dynamic_yaw"}

\* The entries of a schedule that name a system of the set.
TimesRegistered(sched, systems) ==
    Cardinality({i \in 1..Len(sched.PRE_UPDATE) :
                    sched.PRE_UPDATE[i] \in systems})
        + Cardinality({i \in 1..Len(sched.UPDATE) :
                          sched.UPDATE[i] \in systems})

\* C7: from startup on, the registered systems hold exactly one adapter and
\* exactly one yaw system, those of the controller type, and the schedule
\* never changes afterwards.
C7_OneMatchingPairRegistered ==
    [][/\ pc' \in {"startup", "running", "panicked"}
            => /\ Registered(schedule') \cap (Adapters \cup YawSystems)
                    = Expected(controller_type')
               /\ TimesRegistered(schedule', Adapters) = 1
               /\ TimesRegistered(schedule', YawSystems) = 1
       /\ pc \in {"startup", "running", "panicked"}
            => schedule' = schedule /\ controller_type' = controller_type]_vars

\* C7 witness: a session of the kinematic strategy in its second tick, with
\* the kinematic adapter and the kinematic yaw system in the schedule.
C7_Witness ==
    /\ pc = "running"
    /\ tick = 2
    /\ controller_type = "KinematicTranslation"
    /\ "controller_to_physx_kinematic" \in Registered(schedule)
    /\ "controller_to_physx_kinematic_yaw" \in Registered(schedule)

\* The argument names no variant of ControllerType, in any case.
Unrecognized(a) ==
    /\ a # NoArg
    /\ ToAsciiLowercase(a) \notin
         {"kinematictranslation", "dynamicimpulse", "dynamicforce"}

\* C8: with an unrecognized <type> the process never gets past main: no
\* controller type is set, no system is registered and no tick runs.
C8_UnrecognizedFailsAtStartup ==
    Unrecognized(arg) =>
        /\ pc \in {"start", "config_error"}
        /\ controller_type = "None"
        /\ schedule = EmptySchedule
        /\ tick = 0

\* C8 witness: main has ended in the configuration error for "Rapier".
C8_Witness == pc = "config_error" /\ arg = "Rapier"

\* The body the systems of the controller type look for is there.
BodyMatched ==
    IF controller_type = "KinematicTranslation" THEN has_controller
    ELSE has_body_handle

\* The channel the adapter of the controller type drains, and its cursor.
AdapterChannel ==
    CASE controller_type = "KinematicTranslation" ->
           <<translations, reader.translations>>
      [] controller_type = "DynamicImpulse" -> <<impulses, reader.impulses>>
      [] controller_type = "DynamicForce" -> <<forces, reader.forces>>

\* C9: when the simulation step of a tick is about to run, the adapter and
\* the yaw system have run in that tick and, for a matched body, have read
\* every event of their channels; every add_force call is integrated by the
\* step of the tick it was made in and by no other, and none is left over
\* once the step has run.
C9_AdaptersBeforeStep ==
    /\ Runs("physx_step") =>
         /\ ran \cap Adapters # {}
         /\ ran \cap YawSystems # {}
         /\ BodyMatched => /\ AdapterChannel[2] = Len(AdapterChannel[1])
                           /\ reader.yaws = Len(yaws)
    /\ \A i \in 1..Len(log) :
         /\ log[i].step \in {0, log[i].tick}
         /\ "physx_step" \in ran => log[i].step # 0

\* C9 witness: the step of the second tick is about to run with an add_force
\* call of that tick to integrate.
C9_Witness ==
    /\ Runs("physx_step")
    /\ tick = 2
    /\ log # <<>>
    /\ Last(log).tick = 2
    /\ Last(log).step = 0

\* C10 as stated: whenever body_to_velocity runs and the body has a backend
\* handle (a capsule controller or a live dynamic body), velocity is
\* overwritten in that tick.
C10_VelocityOverwrittenForEveryHandle ==
    [][Runs("body_to_velocity")
         /\ (has_controller \/ (has_body_handle /\ body_live))
         => velocity_tick' = tick]_vars

\* C10 as amended: body_to_velocity runs in the PRE_UPDATE stage of every
\* tick; when the body has a live dynamic body handle it overwrites velocity
\* with the backend's linear velocity; under KinematicTranslation, where the
\* body has a capsule controller and no such handle, velocity is never
\* written and keeps its spawn value.
C10_VelocityOverwrittenForDynamicBody ==
    [][/\ Runs("body_to_velocity") /\ has_body_handle /\ body_live
            => velocity' = body_velocity /\ velocity_tick' = tick
       /\ stage' = "UPDATE" => "body_to_velocity" \in ran'
       /\ controller_type' = "KinematicTranslation"
            => velocity' = Zero3 /\ velocity_tick' = 0]_vars

\* C10 witness: in the second tick velocity has been overwritten with the
\* non-zero velocity the first step left the dynamic body with.
C10_Witness ==
    /\ tick = 2
    /\ velocity_tick = 2
    /\ has_body_handle
    /\ velocity # Zero3
    /\ velocity = body_velocity

\* The systems of physx.rs that take a dynamic body handle.
HandleSystems ==
    {"constrain_rotation", "create_mass", "body_to_velocity",
     "controller_to_physx_dynamic_impulse",
     "controller_to_physx_dynamic_force", "controller_to_physx_dynamic_yaw"}

\* The system is run for the body: the body has the handle and the filters
\* of the system's query let it through.
Processes(sys) ==
    /\ has_body_handle
    /\ sys = "constrain_rotation" => ~constrained
    /\ sys = "create_mass" => mass = <<>>

\* The run of the system reaches its lookup of the handle: the three systems
\* that always look up, an adapter whose unread events sum to more than
\* 1E-6 squared, the yaw system with an unread Yaw event.
LooksUp(sys) ==
    /\ Processes(sys)
    /\ sys = "controller_to_physx_dynamic_impulse"
         => UnreadSquared(impulses, reader.impulses) > Epsilon
    /\ sys = "controller_to_physx_dynamic_force"
         => UnreadSquared(forces, reader.forces) > Epsilon
    /\ sys = "controller_to_physx_dynamic_yaw" => Len(yaws) > reader.yaws

\* C11 as stated: a system that is run for a body whose handle resolves to
\* no backend body ends in the panic; none goes on to the next system.
C11_DeadHandleAlwaysFatal ==
    [][\A sys \in HandleSystems :
           Runs(sys) /\ Processes(sys) /\ ~body_live
             => pc' = "panicked"]_vars

\* C11 as amended: a system that reaches its lookup of a handle that
\* resolves to no backend body panics and changes nothing else, and nothing
\* runs after the panic; an impulse or force adapter with nothing above
\* 1E-6 to submit and the dynamic yaw system with no unread Yaw event make
\* no lookup, so for such a handle they go on to the next system without a
\* panic and without a backend command.
C11_DeadHandleFatalAtLookup ==
    [][/\ pc # "panicked"
       /\ \A sys \in HandleSystems :
            Runs(sys) /\ ~body_live =>
              IF LooksUp(sys)
              THEN /\ pc' = "panicked"
                   /\ UNCHANGED <<posVars, reader, entVars, backVars,
                                  commands, histVars, bodies>>
              ELSE /\ pc' = "running"
                   /\ idx' = idx + 1
                   /\ UNCHANGED <<backVars, log, mutated>>]_vars

\* C11 witness: the body was released after body_to_velocity had run, and
\* the adapter or the dynamic yaw system, in the UPDATE stage, has panicked
\* at its lookup.
C11_Witness ==
    /\ pc = "panicked"
    /\ ~body_live
    /\ stage = "UPDATE"
    /\ "body_to_velocity" \in ran
    /\ schedule[stage][idx] \in Adapters \cup YawSystems

\* C12: every consumer of a channel sees every event of it: at the end of a
\* tick in which print_controller_events and the kinematic yaw system have
\* both run, print_controller_events has printed every Translation and Yaw
\* event emitted so far, and the yaw node has the rotation of the last Yaw
\* event.
C12_EveryConsumerSeesEveryEvent ==
    /\ pc = "running"
    /\ stage = "idle"
    /\ "print_controller_events" \in ran
    /\ "controller_to_physx_kinematic_yaw" \in ran
    => /\ printed.yaws = yaws
       /\ printed.translations = translations
       /\ yaws # <<>> => yaw_rotation = FromRotationY(Last(yaws))

\* C13: a run of the dynamic yaw system that applies a yaw leaves the body's
\* global pose with the translation it had before the run and with the
\* rotation about Y by the last unread yaw.
C13_YawKeepsTranslation ==
    [][Runs("controller_to_physx_dynamic_yaw")
         /\ has_body_handle /\ body_live /\ Len(yaws) > reader.yaws
         => /\ body_pose'.translation = body_pose.translation
            /\ body_pose'.rotation = FromRotationY(yaws[Len(yaws)])]_vars

\* C13 witness: the dynamic yaw system has written the pose of a body that
\* an earlier step had moved away from where it was spawned.
C13_Witness ==
    /\ "controller_to_physx_dynamic_yaw" \in mutated
    /\ body_live
    /\ body_pose.translation # SpawnTranslation
    /\ body_pose.rotation # QuatIdentity

\* The systems that issue mutating backend commands under a controller
\* type: the kinematic adapter alone, or the dynamic adapter of the type,
\* the dynamic yaw system and constrain_rotation.
Writers(ct) ==
    CASE ct = "KinematicTranslation" -> {"controller_to_physx_kinematic"}
      [] ct = "DynamicImpulse" ->
           {"controller_to_physx_dynamic_impulse",
            "controller_to_physx_dynamic_yaw", "constrain_rotation"}
      [] ct = "DynamicForce" ->
           {"controller_to_physx_dynamic_force",
            "controller_to_physx_dynamic_yaw", "constrain_rotation"}
      [] OTHER -> {}

\* The step changes the backend's state of the body or adds a force to it.
BackendChanged ==
    \/ <<ctrl_position, body_mass, body_velocity, body_inertia, body_pose>>'
          # <<ctrl_position, body_mass, body_velocity, body_inertia, body_pose>>
    \/ Len(log') > Len(log)

\* C14 as stated: the systems that have changed the backend's state of the
\* body in a tick are adapters (yaw systems included), and at most one of
\* them.
C14_SingleAdapterWriter ==
    /\ mutated \subseteq Adapters \cup YawSystems
    /\ Cardinality(mutated) <= 1

\* C14 as amended: the registered systems that change the backend's state
\* of the body are the kinematic adapter under KinematicTranslation and,
\* under a dynamic type, its adapter, the dynamic yaw system and
\* constrain_rotation; in one tick at most one adapter and at most one yaw
\* system do, and up to three systems write to the same dynamic body.
C14_WritersOfTheType ==
    [][/\ mutated' \subseteq Writers(controller_type')
       /\ Cardinality(mutated' \cap Adapters) <= 1
       /\ Cardinality(mutated' \cap YawSystems) <= 1
       /\ \A sys \in Registered(schedule) \ {"physx_step"} :
            Runs(sys) /\ BackendChanged => sys \in mutated']_vars

\* C14 witness: under DynamicForce the force adapter, the dynamic yaw system
\* and constrain_rotation have all written to the body in one tick.
C14_Witness ==
    mutated = {"controller_to_physx_dynamic_force",
               "controller_to_physx_dynamic_yaw", "constrain_rotation"}

\* C15: CharacterController.velocity is zero when the body is spawned, and
\* the only step that changes it afterwards is body_to_velocity, for a live
\* dynamic body, which leaves it with the backend's linear velocity; no
\* adapter, yaw system or setup system changes it.
C15_OnlyBodyToVelocityWritesVelocity ==
    [][/\ pc \in {"start", "startup"} => velocity' = Zero3
       /\ velocity' # velocity
            => /\ Runs("body_to_velocity")
               /\ has_body_handle /\ body_live
               /\ velocity' = body_velocity
       /\ \A sys \in Registered(schedule) \ {"body_to_velocity"} :
            Runs(sys) => velocity' = velocity]_vars

\* C15 witness: in the second tick an adapter has made its add_force call
\* while velocity holds the non-zero value body_to_velocity read in that
\* tick.
C15_Witness ==
    /\ tick = 2
    /\ velocity_tick = 2
    /\ velocity # Zero3
    /\ mutated \cap Adapters # {}

\* The componentwise difference of two vectors, exact.
Offset(a, b) == <<a[1] - b[1], a[2] - b[2], a[3] - b[3]>>

\* C16: a run of the kinematic adapter adds one and the same delta, the
\* summed translation after the clamp, to the capsule controller's position
\* and to the Transform's translation, and the offset between the two is
\* after the run what it was before.
C16_SameDeltaToBoth ==
    [][KinematicActs =>
         LET delta == ClampedTranslation(ctrl_position,
                          SumEvents(Unread(translations, reader.translations)))
         IN  /\ ctrl_position' = VecAdd(ctrl_position, delta)
             /\ transform' = VecAdd(transform, delta)
             /\ Offset(ctrl_position', transform')
                  = Offset(ctrl_position, transform)]_vars

\* C16 witness: by its run of the second tick the kinematic adapter has
\* applied a sideways translation and a downward one that engages the clamp,
\* and the controller's position and the Transform's translation agree.
C16_Witness ==
    /\ "controller_to_physx_kinematic" \in mutated
    /\ tick = 2
    /\ Len(translations) = 2
    /\ translations[2][2] < 0
    /\ reader.translations = 2
    /\ ctrl_position[1] # 0
    /\ ctrl_position = transform

\* C17: every run of the kinematic adapter writes a position whose Y is at
\* least min_y, and a run that finds the body below min_y with no unread
\* Translation event writes min_y and clears jumping.
C17_WrittenYAtLeastMinY ==
    [][KinematicActs =>
         /\ ctrl_position'[2] >= MinY
         /\ ctrl_position[2] < MinY /\ Len(translations) = reader.translations
              => ctrl_position'[2] = MinY /\ ~jumping']_vars

\* C18: a run of the kinematic adapter in which position.y + translation.y
\* is at least min_y (min_y itself included) adds the summed translation as
\* it is to the controller's position and to the Transform and leaves
\* jumping as it was; no adapter and no yaw system turns jumping from false
\* to true.
C18_NoClampNoChange ==
    [][/\ KinematicActs =>
            LET summed == SumEvents(Unread(translations, reader.translations))
            IN  F32Add(ctrl_position[2], summed[2]) >= MinY
                  => /\ ctrl_position' = VecAdd(ctrl_position, summed)
                     /\ transform' = VecAdd(transform, summed)
                     /\ jumping' = jumping
       /\ \A sys \in Adapters \cup YawSystems :
            Runs(sys) /\ jumping' => jumping]_vars

\* C18 witness: the kinematic adapter has run for a jumping body whose
\* position came out at min_y exactly, and the body is still jumping.
C18_Witness ==
    /\ "controller_to_physx_kinematic" \in mutated
    /\ jumping
    /\ ctrl_position[2] = MinY
    /\ ctrl_position[1] # 0

\* C19: a run of a yaw system with no unread Yaw event changes no rotation:
\* the kinematic yaw system leaves the yaw node's rotation as it was; the
\* dynamic yaw system leaves the body's pose as it was, issues no backend
\* command and makes no lookup, so it does not panic even for a handle that
\* resolves to no body.
C19_NoYawNoChange ==
    [][/\ Runs("controller_to_physx_kinematic_yaw")
            /\ Len(yaws) = reader.yaws
            => yaw_rotation' = yaw_rotation /\ pc' = "running"
       /\ Runs("controller_to_physx_dynamic_yaw")
            /\ Len(yaws) = reader.yaws
            => /\ body_pose' = body_pose
               /\ mutated' = mutated
               /\ pc' = "running"]_vars

\* C19 witness: the dynamic yaw system has run in the second tick with no
\* Yaw event emitted since the one it applied in the first tick, has issued
\* no command, and the rotation it wrote in the first tick is still there.
C19_Witness ==
    /\ tick = 2
    /\ "controller_to_physx_dynamic_yaw" \in ran
    /\ "controller_to_physx_dynamic_yaw" \notin mutated
    /\ Len(yaws) = 1
    /\ reader.yaws = 1
    /\ body_pose.rotation = FromRotationY(yaws[1])
    /\ body_pose.rotation # QuatIdentity

ModeOf(sys) ==
    IF sys = "controller_to_physx_dynamic_impulse" THEN "Impulse" ELSE "Force"

EventsOf(sys) ==
    IF sys = "controller_to_physx_dynamic_impulse" THEN impulses ELSE forces

\* C21: every add_force call on record was made by the adapter of the
\* controller type, carries the mode of that adapter and the sum of a run
\* of events of that adapter's own channel; under KinematicTranslation
\* there is no add_force call at all; under a dynamic type no set_position
\* call is made; and the channels of the strategies not selected are never
\* read.
C21_ModesNotConflated ==
    /\ \A i \in 1..Len(log) :
         /\ log[i].sys = AdapterFor(controller_type)
         /\ log[i].sys \in {"controller_to_physx_dynamic_impulse",
                            "controller_to_physx_dynamic_force"}
         /\ log[i].mode = ModeOf(log[i].sys)
         /\ log[i].last <= Len(EventsOf(log[i].sys))
         /\ log[i].vec = ExactSum(SubSeq(EventsOf(log[i].sys), 1, log[i].last),
                                  log[i].first)
    /\ controller_type = "KinematicTranslation"
         => log = <<>> /\ reader.impulses = 0 /\ reader.forces = 0
    /\ controller_type = "DynamicImpulse"
         => reader.translations = 0 /\ reader.forces = 0
    /\ controller_type = "DynamicForce"
         => reader.translations = 0 /\ reader.impulses = 0
    /\ controller_type \in {"DynamicImpulse", "DynamicForce"}
         => /\ ctrl_position = Zero3
            /\ "controller_to_physx_kinematic" \notin mutated

\* C21 witness: under DynamicForce an Impulse event and a Force event have
\* been emitted, the step has run, and the one add_force call on record is
\* the force adapter's, in mode Force, carrying the Force event alone.
C21_Witness ==
    /\ controller_type = "DynamicForce"
    /\ Len(impulses) = 1
    /\ Len(forces) = 1
    /\ LengthSquared(impulses[1]) > Epsilon
    /\ "physx_step" \in ran
    /\ Len(log) = 1
    /\ log[1].mode = "Force"
    /\ log[1].vec = forces[1]

\* C22: a run of controller_to_kinematic leaves every body of its query
\* moved by all the Translation events sent since the run before (and
\* clamped), whichever body the query visits first.
C22_EveryBodyGetsTheSum ==
    [][tick' = tick + 1 =>
         \A b \in 1..NumBodies :
            bodies'[b] = VisitBody(bodies[b],
                                   Unread(translations, reader.translations))]_vars

====
